---- MODULE Spec2Model ----
(***************************************************************************)
(* Model of the dea-fmc batch pipeline: the queue-driven command           *)
(* fmc_processing_with_sqs, the single-identifier command fmc_processing,  *)
(* the pipeline driver process_dataset they both call with the rasters it  *)
(* computes (masks, classify_fmc, thumbnail, nodata pass), and the queue   *)
(* task source get_uuid_iterator_from_sqs / _extract_uuid_from_body that   *)
(* the tests import.                                                       *)
(***************************************************************************)
EXTENDS Integers, Sequences, FiniteSets, TLC

(***************************************************************************)
(* Bounds of the model                                                     *)
(***************************************************************************)
\* messages sitting in the queue when the run starts
NumMsgs == 2
\* how often the queue hands out one message (visibility timeout expiry)
MaxDeliveries == 1
\* largest max_empty_polls argument given to the iterator
MaxEmptyPollsArg == 2
\* calls and polls count up to this number
MaxCounted == 2
\* side of the square rasters, in pixels
Side == 4

(***************************************************************************)
(* Program constants                                                       *)
(***************************************************************************)
\* "if no_message_count >= 10" in fmc_processing_with_sqs
MaxEmptyPolls == 10
\* MaxNumberOfMessages=10 of receive_message
MaxNumberOfMessages == 10
\* the nodata value of classify_fmc and process_dataset
Nodata == -999

Msgs == 1..NumMsgs

(***************************************************************************)
(* Texts and JSON values.  A text is either <<"raw", s>>, the characters s *)
(* that are not a JSON document, or <<"json", v>>, the serialisation       *)
(* json.dumps(v) of the JSON value v.  A JSON value is a string            *)
(* <<"str", text>> or an object <<"obj", record>>.                         *)
(***************************************************************************)
Raw(s) == <<"raw", s>>
Dumps(v) == <<"json", v>>
JStr(t) == <<"str", t>>
JObj(r) == <<"obj", r>>

\* catalog identifiers that are well-formed UUIDs
UUID == "44220f30-1ece-4b16-b3e1-b117ac61184f"
UUID2 == "52dda32c-cb4b-49eb-a31d-bcf70bf62751"
UUID_LS == "0a0a0a0a-0000-4000-8000-00000000001c"
UUID_UNKNOWN == "ffffffff-0000-4000-8000-000000000000"
UUID_NRT == "0b0b0b0b-0000-4000-8000-00000000002a"
UUIDs == {UUID, UUID2, UUID_LS, UUID_UNKNOWN, UUID_NRT}

\* the message bodies the model draws from: text and the identifier a
\* reader of the message would expect ("" when the body carries none)
Bodies == <<
  [text |-> Raw(UUID), expect |-> UUID],
  [text |-> Raw(UUID2), expect |-> UUID2],
  [text |-> Raw(UUID_LS), expect |-> UUID_LS],
  [text |-> Raw(UUID_UNKNOWN), expect |-> UUID_UNKNOWN],
  [text |-> Dumps(JObj([type |-> JStr(Raw("Feature")), id |-> JStr(Raw(UUID))])),
   expect |-> UUID],
  [text |-> Dumps(JObj([dataset_uuid |-> JStr(Raw(UUID2))])), expect |-> UUID2],
  [text |-> Dumps(JObj([feature |-> JObj([id |-> JStr(Raw(UUID))])])),
   expect |-> UUID],
  [text |-> Dumps(JObj([Message |->
                JStr(Dumps(JObj([type |-> JStr(Raw("Feature")),
                                 id |-> JStr(Raw(UUID2))])))])),
   expect |-> UUID2],
  [text |-> Dumps(JObj([Message |->
                JStr(Dumps(JObj([feature |-> JObj([id |-> JStr(Raw(UUID))])])))])),
   expect |-> UUID],
  [text |-> Raw("not-a-uuid"), expect |-> ""],
  [text |-> Dumps(JObj([id |-> JStr(Raw("not-a-uuid"))])), expect |-> ""],
  [text |-> Dumps(JObj([type |-> JStr(Raw("Feature"))])), expect |-> ""],
  [text |-> Raw(UUID_NRT), expect |-> UUID_NRT]
>>

BodyIds == 1..Len(Bodies)
\* bodies given to the commands of __main__.py, which take the body as the
\* identifier: a Sentinel-2 acquisition, a Landsat acquisition and an
\* identifier the catalog does not know
CommandBodies == {1, 3, 4}
\* identifiers given to fmc_processing: those, a Sentinel-2B acquisition of
\* low geometric quality and a near-real-time acquisition of the same
\* product, region and day as the first
SingleBodies == CommandBodies \cup {2, 13}

(***************************************************************************)
(* The catalog (datacube index) and the process configuration              *)
(***************************************************************************)
\* region_code is kept as its first two characters and the rest; the
\* acquisition time as year, month, day and time of day; gqa is the
\* absolute mean positional error (gqa_abs_iterative_mean_xy) and maturity
\* the declared dea:dataset_maturity of the record
Catalog == [u \in {UUID, UUID2, UUID_LS, UUID_NRT} |->
  CASE u = UUID -> [product |-> "ga_s2am_ard_3", region |-> <<"55", "HFA">>,
                    time |-> <<"2024", "01", "15", "00:12:09">>,
                    gqa |-> 0, maturity |-> "final"]
    [] u = UUID2 -> [product |-> "ga_s2bm_ard_3", region |-> <<"55", "HFA">>,
                     time |-> <<"2024", "01", "15", "00:12:09">>,
                     gqa |-> 2, maturity |-> "final"]
    [] u = UUID_LS -> [product |-> "ga_ls8c_ard_3", region |-> <<"55", "HFA">>,
                       time |-> <<"2024", "01", "15", "23:50:41">>,
                       gqa |-> 0, maturity |-> "final"]
    [] u = UUID_NRT -> [product |-> "ga_s2am_ard_3", region |-> <<"55", "HFA">>,
                        time |-> <<"2024", "01", "15", "00:12:19">>,
                        gqa |-> 0, maturity |-> "nrt"]]

ProcessCfg == [output_folder |-> "s3://dea-public-data-dev/derivative",
               version |-> <<"0", "1">>,
               model_path |-> "s3://dea-public-data-dev/fmc/model.joblib"]

(***************************************************************************)
(* Names derived in process_dataset and add_fmc_metadata_files             *)
(***************************************************************************)
SupportedProducts == {"ga_s2am_ard_3", "ga_s2bm_ard_3", "ga_s2cm_ard_3"}

\* the if/elif chain on dataset.product.name
ProductName(product) ==
  CASE product = "ga_s2am_ard_3" -> "ga_s2am_fmc"
    [] product = "ga_s2bm_ard_3" -> "ga_s2bm_fmc"
    [] product = "ga_s2cm_ard_3" -> "ga_s2cm_fmc"
    [] OTHER -> ""

\* str(process_cfg["product"]["version"]).replace(".", "-")
ProductVersion == ProcessCfg.version[1] \o "-" \o ProcessCfg.version[2]

RegionCode(ds) == ds.region[1] \o ds.region[2]

\* AcquisitionDate with the time of day kept: strftime of the datetime
AcquisitionDate_WithTime(ds) ==
  ds.time[1] \o "-" \o ds.time[2] \o "-" \o ds.time[3] \o "T" \o ds.time[4]

\* dataset.metadata.fields["time"][0].date().strftime("%Y-%m-%d")
AcquisitionDate(ds) == ds.time[1] \o "-" \o ds.time[2] \o "-" \o ds.time[3]

Title(ds) ==
  ProductName(ds.product) \o "_" \o ProductVersion \o "_" \o RegionCode(ds)
    \o "_" \o AcquisitionDate(ds)

LocalTif(ds) == Title(ds) \o "_final_fmc.tif"

\* region_code[:2], region_code[2:] and acquisition_date.replace("-", "/")
S3Folder(ds) ==
  ProcessCfg.output_folder \o "/" \o ProductName(ds.product) \o "/"
    \o ProductVersion \o "/" \o ds.region[1] \o "/" \o ds.region[2] \o "/"
    \o ds.time[1] \o "/" \o ds.time[2] \o "/" \o ds.time[3]

S3FileUri(ds) == S3Folder(ds) \o "/" \o LocalTif(ds)

ModelPath == "RF_AllBands_noLC_DEA_labeless.joblib"
LocalThumbnailPath == "thumbnail_image.jpg"
ThumbnailFilename(ds) == Title(ds) \o "_thumbnail.jpg"
LocalStacMetadataPath(ds) == Title(ds) \o ".stac.json"
LocalOdcMetadataPath(ds) == Title(ds) \o ".odc.yaml"
S3StacMetadataPath(ds) == S3Folder(ds) \o "/" \o LocalStacMetadataPath(ds)
S3OdcMetadataPath(ds) == S3Folder(ds) \o "/" \o LocalOdcMetadataPath(ds)
S3ThumbnailPath(ds) == S3Folder(ds) \o "/" \o ThumbnailFilename(ds)

\* the four objects one complete run leaves at the Output Location
PublishedObjects(ds) ==
  {S3FileUri(ds), S3StacMetadataPath(ds), S3OdcMetadataPath(ds),
   S3ThumbnailPath(ds)}

(***************************************************************************)
(* Rasters.  A raster value is not-a-number, an infinity, or the finite    *)
(* quotient n/d: the reflectances and the classes are quotients n/1.       *)
(***************************************************************************)
\* the value a variable of process_dataset has before it is assigned
None == <<>>

\* the pixels <<x, y>> of a square raster
Grid(side) == (1..side) \X (1..side)
\* the pixels in the order of stack(z=["x", "y", "time"])
PixelSeq(side) ==
  [i \in 1..(side * side) |-> <<((i - 1) \div side) + 1, ((i - 1) % side) + 1>>]

NaN == <<"nan">>
PosInf == <<"inf", 1>>
NegInf == <<"inf", -1>>
Fin(n, d) == <<"fin", n, d>>
Num(n) == Fin(n, 1)
IsInf(v) == v \in {PosInf, NegInf}

\* a / b of numpy for integers: a quotient, or for b = 0 an infinity of the
\* sign of a, or not-a-number for 0 / 0
Div(a, b) ==
  IF b # 0 THEN Fin(a, b)
  ELSE IF a > 0 THEN PosInf
  ELSE IF a < 0 THEN NegInf
  ELSE NaN

\* v >= 0, false for not-a-number
GreaterEqual0(v) ==
  CASE v = NaN -> FALSE
    [] v = PosInf -> TRUE
    [] v = NegInf -> FALSE
    [] OTHER -> v[2] * v[3] >= 0

\* the reflectance bands the configuration asks for (quality bands aside)
InputBands ==
  <<"nbart_blue", "nbart_green", "nbart_red", "nbart_red_edge_1",
    "nbart_red_edge_2", "nbart_red_edge_3", "nbart_nir_1", "nbart_nir_2",
    "nbart_swir_2", "nbart_swir_3">>

\* bands_order of classify_fmc
bands_order ==
  <<"ndvi", "ndii", "nbart_blue", "nbart_green", "nbart_red",
    "nbart_red_edge_1", "nbart_red_edge_2", "nbart_red_edge_3",
    "nbart_nir_1", "nbart_nir_2", "nbart_swir_2", "nbart_swir_3">>

Range(f) == {f[i] : i \in DOMAIN f}

\* reflectances of one pixel: vegetation, bare ground (NDVI below 0), a
\* pixel of NDVI 0, and pixels where a band holds the nodata value -999 or 0
\* so that a denominator is 0
Vegetation ==
  [b \in Range(InputBands) |->
     CASE b = "nbart_blue" -> 310
       [] b = "nbart_green" -> 520
       [] b = "nbart_red" -> 430
       [] b = "nbart_red_edge_1" -> 910
       [] b = "nbart_red_edge_2" -> 1820
       [] b = "nbart_red_edge_3" -> 2140
       [] b = "nbart_nir_1" -> 2510
       [] b = "nbart_nir_2" -> 2630
       [] b = "nbart_swir_2" -> 1440
       [] b = "nbart_swir_3" -> 760]

SpectrumNames ==
  {"vegetation", "bare", "ndvi_zero", "ndvi_posinf", "ndii_neginf", "ndvi_nan"}

Spectrum(name) ==
  CASE name = "vegetation" -> Vegetation
    [] name = "bare" -> [Vegetation EXCEPT !["nbart_nir_1"] = 300]
    [] name = "ndvi_zero" -> [Vegetation EXCEPT !["nbart_nir_1"] = 430]
    [] name = "ndvi_posinf" ->
         [Vegetation EXCEPT !["nbart_nir_1"] = 999, !["nbart_red"] = -999]
    [] name = "ndii_neginf" ->
         [Vegetation EXCEPT !["nbart_nir_1"] = -999, !["nbart_swir_2"] = 999]
    [] name = "ndvi_nan" ->
         [Vegetation EXCEPT !["nbart_nir_1"] = 0, !["nbart_red"] = 0]

\* orders in which the configuration can list the bands
Reverse(q) == [i \in 1..Len(q) |-> q[Len(q) + 1 - i]]
Rotate(q) == Tail(q) \o <<Head(q)>>
BandOrders == {InputBands, Reverse(InputBands), Rotate(InputBands)}

Models == {"constant_5", "column_1"}

\* model.predict for one row of the matrix: the stub that answers 5, and a
\* model whose answer is read off the first column (-1 below 0)
PredictRow(model, row) ==
  IF model = "constant_5" THEN 5
  ELSE IF row[1][2] * row[1][3] < 0 THEN -1
  ELSE row[1][2]

\* values of oa_fmask: cloud, shadow, water and nodata (1 is valid)
FmaskCloud == 2
FmaskShadow == 3
FmaskWater == 5
FmaskNodata == 0

Offset(p, d) == <<p[1] + d[1], p[2] + d[2]>>

\* the footprint disk(radius)
Disk(radius) ==
  {d \in (-radius..radius) \X (-radius..radius) :
     d[1] * d[1] + d[2] * d[2] <= radius * radius}

\* binary erosion and dilation of a boolean raster with the footprint
\* disk(radius); border is what the erosion takes the pixels outside the
\* raster to be
Erosion(mask, radius, border) ==
  LET footprint == Disk(radius) IN
  [p \in DOMAIN mask |-> \A d \in footprint :
     IF Offset(p, d) \in DOMAIN mask THEN mask[Offset(p, d)] ELSE border]

Dilation(mask, radius) ==
  LET footprint == Disk(radius) IN
  [p \in DOMAIN mask |-> \E d \in footprint :
     Offset(p, d) \in DOMAIN mask /\ mask[Offset(p, d)]]

Opening(mask, radius, border) ==
  LET eroded == Erosion(mask, radius, border) IN Dilation(eroded, radius)

OpeningRadius == 1
DilationRadius == 3

\* mask_cleanup without the opening: the dilation only
mask_cleanup_DilationOnly(mask, border) == Dilation(mask, DilationRadius)

\* mask_cleanup(mask, [("opening", 1), ("dilation", 3)])
mask_cleanup(mask, border) ==
  LET opened == Opening(mask, OpeningRadius, border) IN
  Dilation(opened, DilationRadius)

\* (df.oa_fmask == 2) | (df.oa_fmask == 3)
CloudMask(sc) ==
  [p \in DOMAIN sc.fmask |-> sc.fmask[p] \in {FmaskCloud, FmaskShadow}]

\* (df.oa_fmask == 5) | (df.oa_fmask == 0) | (df.oa_nbart_contiguity == 0)
WaterMask(sc) ==
  [p \in DOMAIN sc.fmask |-> sc.fmask[p] \in {FmaskWater, FmaskNodata}
                               \/ sc.contiguity[p] = 0]

BetterCloudMask(sc) == mask_cleanup(CloudMask(sc), sc.border)

\* dc.load and drop_vars: the reflectance bands in the order of the
\* configuration
Load(sc) ==
  [side |-> sc.side, vars |-> sc.order,
   px |-> [p \in Grid(sc.side) |-> Spectrum(sc.spectrum[p])]]

\* data["ndii"] = ..., data["ndvi"] = ...: the two indices are appended
WithIndices(data) ==
  [side |-> data.side,
   vars |-> data.vars \o <<"ndii", "ndvi">>,
   px |-> [p \in DOMAIN data.px |->
     [b \in Range(data.vars) \cup {"ndii", "ndvi"} |->
        LET r == data.px[p] IN
        CASE b = "ndii" -> Div(r["nbart_nir_1"] - r["nbart_swir_2"],
                               r["nbart_nir_1"] + r["nbart_swir_2"])
          [] b = "ndvi" -> Div(r["nbart_nir_1"] - r["nbart_red"],
                               r["nbart_nir_1"] + r["nbart_red"])
          [] OTHER -> Num(r[b])]]]

\* the selection taking the variables as they come instead of by name
Reorder_ByPosition(data) == data

\* data_neworder = data[bands_order]
Reorder(data) == [data EXCEPT !.vars = bands_order]

\* the values of one pixel, one per variable in the order of the Dataset
Row(data, p) == [j \in 1..Len(data.vars) |-> data.px[p][data.vars[j]]]

\* sklearn_flatten and sklearn_unflatten leave out the pixels with
\* not-a-number in any variable
HasNaN(data, p) == \E j \in 1..Len(data.vars) : data.px[p][data.vars[j]] = NaN
IsKept(data, p) == ~HasNaN(data, p)
KeptPixels(data) ==
  SelectSeq(PixelSeq(data.side), LAMBDA p : IsKept(data, p))

sklearn_flatten(data) ==
  LET kept == KeptPixels(data) IN
  [i \in 1..Len(kept) |-> Row(data, kept[i])]

\* the replacement of +infinity only
ReplaceInf_PositiveOnly(matrix) ==
  [i \in DOMAIN matrix |-> [j \in DOMAIN matrix[i] |->
     IF matrix[i][j] = PosInf THEN Num(Nodata) ELSE matrix[i][j]]]

\* np.where(np.isinf(data_flat), -999, data_flat)
ReplaceInf(matrix) ==
  [i \in DOMAIN matrix |-> [j \in DOMAIN matrix[i] |->
     IF IsInf(matrix[i][j]) THEN Num(Nodata) ELSE matrix[i][j]]]

\* the matrix classify_fmc gives to model.predict
DataFlat(data) ==
  LET data_neworder == Reorder(WithIndices(data)) IN
  LET flat == sklearn_flatten(data_neworder) IN
  ReplaceInf(flat)

\* model.predict
Predict(model, matrix) == [i \in DOMAIN matrix |-> PredictRow(model, matrix[i])]

\* sklearn_unflatten(out_class, data): the labels back at their pixels
sklearn_unflatten(out_class, data) ==
  LET kept == KeptPixels(data) IN
  [p \in DOMAIN data.px |->
     IF HasNaN(data, p) THEN NaN
     ELSE Num(out_class[CHOOSE i \in 1..Len(kept) : kept[i] = p])]

\* classify_fmc: the measurement fmc
classify_fmc(data, model) ==
  LET with_indices == WithIndices(data) IN
  LET out_class == Predict(model, DataFlat(data)) IN
  sklearn_unflatten(out_class, with_indices)

\* the masking by the cloud mask alone
Where_CloudOnly(fmc, sc) ==
  LET better_cloud_mask == BetterCloudMask(sc) IN
  [p \in DOMAIN fmc |-> IF ~better_cloud_mask[p] THEN fmc[p] ELSE NaN]

\* fmc_data.where(~better_cloud_mask & ~water_mask)
Where(fmc, sc) ==
  LET better_cloud_mask == BetterCloudMask(sc)
      water_mask == WaterMask(sc) IN
  [p \in DOMAIN fmc |->
     IF ~better_cloud_mask[p] /\ ~water_mask[p] THEN fmc[p] ELSE NaN]

\* v > 0, false for not-a-number
Greater0(v) == GreaterEqual0(v) /\ v # Num(0)

\* the nodata pass with the cutoff at 0 included: where(masked_data > 0, -999)
NodataPass_ZeroIncluded(data) ==
  [p \in DOMAIN data |-> IF Greater0(data[p]) THEN data[p] ELSE Num(Nodata)]

\* masked_data.where(masked_data >= 0, -999)
NodataPass(data) ==
  [p \in DOMAIN data |->
     IF GreaterEqual0(data[p]) THEN data[p] ELSE Num(Nodata)]

\* astype("int16") of whole numbers
Int16(n) == ((n + 32768) % 65536) - 32768
AsInt16(data) == [p \in DOMAIN data |-> Int16(data[p][2])]

\* the data generate_thumbnail renders, taken after the nodata pass
ThumbnailSource_AfterNodata(data) == NodataPass(data)

\* the data generate_thumbnail renders: masked_data as it is at line 386
ThumbnailSource(data) == data

(***************************************************************************)
(* Scenes: what the catalog, the configuration and the model file hold for *)
(* one run.  side is the side of the raster, fmask and contiguity are the  *)
(* quality bands, spectrum names the reflectances of each pixel, order is  *)
(* the order of the bands in the configuration, model the model, border    *)
(* the border value of the erosion.                                        *)
(***************************************************************************)
Clear(side) ==
  [side |-> side,
   fmask |-> [p \in Grid(side) |-> 1],
   contiguity |-> [p \in Grid(side) |-> 1],
   spectrum |-> [p \in Grid(side) |-> "vegetation"],
   order |-> InputBands,
   model |-> "constant_5",
   border |-> TRUE]

\* the clear scenes of one pixel and of Side x Side pixels
PixelScene == Clear(1)
ClearScene == Clear(Side)

Pixels == Grid(Side)

\* a cloud pixel and its neighbours
Plus(c) == {Offset(c, d) : d \in Disk(1)} \cap Pixels

InvalidKinds == {"water", "nodata", "contiguity"}

\* the clear scene with the cloud cs and pixel q flagged water or invalid
Flagged(cs, q, kind, border) ==
  [ClearScene EXCEPT
     !.fmask = [p \in Pixels |->
        IF p \in cs
        THEN (IF Cardinality(cs) = 1 \/ cs = Plus(p) THEN FmaskCloud
              ELSE FmaskShadow)
        ELSE IF p = q /\ kind = "water" THEN FmaskWater
        ELSE IF p = q /\ kind = "nodata" THEN FmaskNodata
        ELSE 1],
     !.contiguity = [p \in Pixels |-> IF p = q /\ kind = "contiguity"
                                      THEN 0 ELSE 1],
     !.border = border]

\* a single cloud pixel and a water pixel anywhere; a cloud with shadow
\* anywhere and a pixel of each invalid kind in the first or the last place
MaskScenes ==
  UNION {{Flagged({p}, q, "water", border) :
            q \in Pixels \ {p}, border \in BOOLEAN} : p \in Pixels}
  \cup
  UNION {{Flagged(Plus(c), q, kind, border) :
            q \in {<<1, 1>>, <<Side, Side>>} \ Plus(c),
            kind \in InvalidKinds, border \in BOOLEAN} : c \in Pixels}

\* scenes of a water pixel, a pixel of bare ground and two pixels of any
\* reflectances, the bands in any of the orders, for either model
FeatureScenes ==
  {[Flagged({}, <<1, 3>>, "water", TRUE) EXCEPT
      !.spectrum = [p \in Pixels |->
         IF p = <<1, 1>> THEN s1
         ELSE IF p = <<1, 2>> THEN s2
         ELSE IF p = <<2, 1>> THEN "bare" ELSE "vegetation"],
      !.order = order,
      !.model = model] :
     s1 \in SpectrumNames, s2 \in SpectrumNames, order \in BandOrders,
     model \in Models}

Scenes == {PixelScene, ClearScene} \cup MaskScenes \cup FeatureScenes

(***************************************************************************)
(* State                                                                   *)
(***************************************************************************)
VARIABLES
  cmd,              \* the entry point that runs
  overwrite,        \* --overwrite/--no-overwrite
  max_empty_polls,  \* argument of get_uuid_iterator_from_sqs
  body,             \* message -> index in Bodies of its Body
  queue,            \* messages in the queue (not deleted)
  deliveries,       \* message -> number of times it was received
  no_message_count, \* consecutive empty polls
  messages,         \* the batch of the last receive_message
  idx,              \* position of the for loop in messages
  pc,               \* position of the command
  pd,               \* position inside process_dataset
  s3,               \* objects in storage
  local,            \* files in the working directory
  calls,            \* number of loads of the configuration and the model,
                    \* counted up to MaxCounted
  polls,            \* number of receive_message calls of the iterator,
                    \* counted up to MaxCounted
  did,              \* collaborators the current call of process_dataset
                    \* has called with success
  result,           \* message -> "running" while process_dataset runs for
                    \* it, then how that call ended
  error_echo,       \* message -> number of "Error processing" lines echoed
  yielded,          \* pairs the iterator has yielded
  exit_status,      \* exit status of the process, -1 while it runs
  scene,            \* the imagery, band order and model of the run
  df,               \* the raster dc.load returned, quality bands dropped
  data_flat,        \* the matrix given to model.predict
  masked_data,      \* masked_data of process_dataset
  thumbnail,        \* the data generate_thumbnail rendered
  cog               \* the raster write_cog wrote

vars == <<cmd, overwrite, max_empty_polls, body, queue, deliveries,
          no_message_count, messages, idx, pc, pd, s3, local, calls, polls,
          did, result, error_echo, yielded, exit_status, scene, df,
          data_flat, masked_data, thumbnail, cog>>

\* fixed by the invocation and its environment
args == <<cmd, overwrite, max_empty_polls, body, scene>>

\* the rasters process_dataset holds
rasters == <<df, data_flat, masked_data, thumbnail, cog>>

Commands == {"fmc_processing", "fmc_processing_with_sqs",
             "get_uuid_iterator_from_sqs"}

\* the loads that calls counts over the whole run
Loads == {"load_yaml_remote", "download_model", "joblib_load"}

\* the message the for loop is at
Cur == messages[idx]
\* dataset_uuid = message["Body"]
DatasetUuid == Bodies[body[Cur]].text

\* dc.index.datasets.get: the record of a known identifier, None for an
\* identifier that is unknown; a text that is no UUID makes it raise
IsUuidText(t) == t[1] = "raw" /\ t[2] \in UUIDs
Known(t) == IsUuidText(t) /\ t[2] \in DOMAIN Catalog
Dataset == Catalog[DatasetUuid[2]]

Init ==
  /\ cmd \in Commands
  /\ overwrite \in BOOLEAN
  /\ max_empty_polls \in 1..MaxEmptyPollsArg
  /\ body \in CASE cmd = "get_uuid_iterator_from_sqs" -> [Msgs -> BodyIds]
               [] cmd = "fmc_processing" -> [Msgs -> SingleBodies]
               [] OTHER -> [Msgs -> CommandBodies]
  \* receive_message returns the messages in any order, so the messages
  \* are numbered in the order of their bodies
  /\ \A m \in Msgs : m + 1 \in Msgs => body[m] <= body[m + 1]
  /\ cmd # "get_uuid_iterator_from_sqs" => max_empty_polls = 1
  /\ cmd = "get_uuid_iterator_from_sqs" => overwrite = TRUE
  /\ cmd = "fmc_processing" => \A m \in Msgs : body[m] = body[1]
  /\ queue \in CASE cmd = "fmc_processing" -> {{}}
                [] cmd = "fmc_processing_with_sqs" -> {Msgs}
                [] OTHER -> {{}, Msgs}
  /\ deliveries = [m \in Msgs |-> 0]
  /\ no_message_count = 0
  /\ messages = IF cmd = "fmc_processing" THEN <<1>> ELSE <<>>
  /\ idx = IF cmd = "fmc_processing" THEN 1 ELSE 0
  /\ pc = IF cmd = "fmc_processing" THEN "for" ELSE "receive"
  /\ pd = IF cmd = "fmc_processing" THEN "cfg" ELSE "idle"
  /\ s3 \in IF cmd = "get_uuid_iterator_from_sqs"
            THEN {{}} ELSE {{}, PublishedObjects(Catalog[UUID])}
  /\ local = {}
  /\ calls = [c \in Loads |-> 0]
  /\ polls = 0
  /\ did = {}
  /\ result = [m \in Msgs |->
                 IF cmd = "fmc_processing" /\ m = 1 THEN "running" ELSE "none"]
  /\ error_echo = [m \in Msgs |-> 0]
  /\ yielded = {}
  /\ exit_status = -1
  /\ scene \in IF cmd = "fmc_processing" THEN Scenes ELSE {PixelScene}
  /\ df = None
  /\ data_flat = None
  /\ masked_data = None
  /\ thumbnail = None
  /\ cog = None

(***************************************************************************)
(* How process_dataset is left, seen from the command that called it       *)
(***************************************************************************)
ctl == <<queue, deliveries, no_message_count, messages, idx, pc, result,
         error_echo, yielded, polls, exit_status>>

\* the current call of process_dataset has called collaborator c; the next
\* call starts with none
Did(c) == did' = did \cup {c}

\* the for loop of fmc_processing_with_sqs takes the next message of the
\* batch, or the while loop polls again; the rasters of the call of
\* process_dataset that ended are gone
NextMessage(how) ==
  /\ df' = None
  /\ data_flat' = None
  /\ masked_data' = None
  /\ thumbnail' = None
  /\ cog' = None
  /\ IF idx < Len(messages)
     THEN /\ idx' = idx + 1
          /\ pd' = "cfg"
          /\ did' = {}
          /\ result' = [result EXCEPT ![Cur] = how,
                                      ![messages[idx + 1]] = "running"]
          /\ UNCHANGED <<messages, pc>>
     ELSE /\ idx' = 0
          /\ messages' = <<>>
          /\ pd' = "idle"
          /\ did' = {}
          /\ result' = [result EXCEPT ![Cur] = how]
          /\ pc' = "receive"

\* Raised with the message acknowledged in the handler
Raised_Acknowledging ==
  /\ IF cmd = "fmc_processing_with_sqs"
     THEN /\ error_echo' = [error_echo EXCEPT ![Cur] = @ + 1]
          /\ queue' = queue \ {Cur}
          /\ NextMessage("error")
          /\ UNCHANGED exit_status
     ELSE /\ result' = [result EXCEPT ![Cur] = "error"]
          /\ pc' = "Exception"
          /\ pd' = "idle"
          /\ exit_status' = 1
          /\ UNCHANGED <<queue, error_echo, messages, idx, did, rasters>>
  /\ UNCHANGED <<deliveries, no_message_count, yielded, polls>>

\* Raised without the except clause of fmc_processing_with_sqs
Raised_Uncaught ==
  /\ result' = [result EXCEPT ![Cur] = "error"]
  /\ pc' = "Exception"
  /\ pd' = "idle"
  /\ exit_status' = 1
  /\ UNCHANGED <<queue, error_echo, messages, idx, did, rasters>>
  /\ UNCHANGED <<deliveries, no_message_count, yielded, polls>>

\* an Exception leaves process_dataset: fmc_processing_with_sqs catches it,
\* echoes it and goes on; fmc_processing lets it through and click ends
\* the process with status 1
Raised ==
  /\ IF cmd = "fmc_processing_with_sqs"
     THEN /\ error_echo' = [error_echo EXCEPT ![Cur] = @ + 1]
          /\ NextMessage("error")
          /\ UNCHANGED <<queue, exit_status>>
     ELSE /\ result' = [result EXCEPT ![Cur] = "error"]
          /\ pc' = "Exception"
          /\ pd' = "idle"
          /\ exit_status' = 1
          /\ UNCHANGED <<queue, error_echo, messages, idx, did, rasters>>
  /\ UNCHANGED <<deliveries, no_message_count, yielded, polls>>

\* sys.exit(0) raises SystemExit, which is no Exception: neither command
\* catches it and the process ends with status 0
SysExit(how) ==
  /\ result' = [result EXCEPT ![Cur] = how]
  /\ pc' = "SystemExit"
  /\ pd' = "idle"
  /\ exit_status' = 0
  /\ UNCHANGED <<queue, deliveries, no_message_count, messages, idx,
                 error_echo, yielded, polls, did, rasters>>

\* process_dataset returns to its caller: fmc_processing_with_sqs deletes
\* the message and goes on, fmc_processing returns and the process ends
\* with status 0.  No path of process_dataset gets here: each ends in
\* sys.exit(0) or in an exception.
Returned(how) ==
  /\ IF cmd = "fmc_processing_with_sqs"
     THEN /\ queue' = queue \ {Cur}
          /\ NextMessage(how)
          /\ UNCHANGED exit_status
     ELSE /\ result' = [result EXCEPT ![Cur] = how]
          /\ pc' = "returned"
          /\ pd' = "idle"
          /\ exit_status' = 0
          /\ UNCHANGED <<queue, messages, idx, did, rasters>>
  /\ UNCHANGED <<deliveries, no_message_count, error_echo, yielded, polls>>

Count(c) == [calls EXCEPT ![c] = IF @ < MaxCounted THEN @ + 1 ELSE @]

InProcessDataset(step) ==
  /\ cmd \in {"fmc_processing", "fmc_processing_with_sqs"}
  /\ pc = "for"
  /\ pd = step

(***************************************************************************)
(* process_dataset, one action per collaborator it calls                   *)
(***************************************************************************)
\* Datacube(), helper.load_yaml_remote
LoadProcessCfg ==
  /\ InProcessDataset("cfg")
  /\ calls' = Count("load_yaml_remote")
  /\ UNCHANGED <<args, s3, local>>
  /\ \/ pd' = "get" /\ Did("load_yaml_remote") /\ UNCHANGED <<ctl, rasters>>
     \/ Raised

\* dc.index.datasets.get and the mapping of the source product
GetDataset ==
  /\ InProcessDataset("get")
  /\ UNCHANGED <<args, s3, local, calls>>
  /\ IF ~Known(DatasetUuid)
     THEN Raised
     ELSE IF Dataset.product \in SupportedProducts
          THEN pd' = "model" /\ UNCHANGED <<did, ctl, rasters>>
          ELSE SysExit("unknown_platform")

\* helper.download_file_from_s3_public
DownloadModel ==
  /\ InProcessDataset("model")
  /\ calls' = Count("download_model")
  /\ UNCHANGED <<args, s3>>
  /\ \/ /\ local' = local \cup {ModelPath}
        /\ pd' = "joblib"
        /\ Did("download_model")
        /\ UNCHANGED <<ctl, rasters>>
     \/ Raised /\ UNCHANGED local

\* joblib.load
LoadModel ==
  /\ InProcessDataset("joblib")
  /\ calls' = Count("joblib_load")
  /\ UNCHANGED <<args, s3, local>>
  /\ \/ pd' = "exists" /\ Did("joblib_load") /\ UNCHANGED <<ctl, rasters>>
     \/ Raised

\* "if not overwrite and helper.check_s3_file_exists(s3_file_uri)"
CheckExists ==
  /\ InProcessDataset("exists")
  /\ UNCHANGED <<args, s3, local, calls>>
  /\ IF overwrite
     THEN pd' = "load" /\ UNCHANGED <<did, ctl, rasters>>
     ELSE \/ IF S3FileUri(Dataset) \in s3
             THEN SysExit("already_exists")
             ELSE pd' = "load" /\ UNCHANGED <<did, ctl, rasters>>
          \/ Raised

\* dc.load, the masks and drop_vars
LoadRaster ==
  /\ InProcessDataset("load")
  /\ UNCHANGED <<args, s3, local, calls>>
  /\ \/ /\ df' = Load(scene)
        /\ pd' = "classify"
        /\ Did("dc_load")
        /\ UNCHANGED <<ctl, data_flat, masked_data, thumbnail, cog>>
     \/ Raised

\* classify_fmc with its call of model.predict, and the masking of its
\* result
Classify ==
  /\ InProcessDataset("classify")
  /\ UNCHANGED <<args, s3, local, calls>>
  /\ \/ /\ data_flat' = DataFlat(df)
        /\ masked_data' = Where(classify_fmc(df, scene.model), scene)
        /\ pd' = "thumbnail"
        /\ Did("predict")
        /\ UNCHANGED <<ctl, df, thumbnail, cog>>
     \/ Raised

\* generate_thumbnail
GenerateThumbnail ==
  /\ InProcessDataset("thumbnail")
  /\ UNCHANGED <<args, s3, calls>>
  /\ \/ /\ local' = local \cup {LocalThumbnailPath}
        /\ thumbnail' = ThumbnailSource(masked_data)
        /\ pd' = "write_cog"
        /\ Did("generate_thumbnail")
        /\ UNCHANGED <<ctl, df, data_flat, masked_data, cog>>
     \/ Raised /\ UNCHANGED local

\* nodata pass, cast and write_cog
WriteCog ==
  /\ InProcessDataset("write_cog")
  /\ UNCHANGED <<args, s3, calls>>
  /\ \/ /\ local' = local \cup {LocalTif(Dataset)}
        /\ masked_data' = AsInt16(NodataPass(masked_data))
        /\ cog' = [dtype |-> "int16", nodata |-> Nodata,
                   px |-> masked_data']
        /\ pd' = "upload_tif"
        /\ Did("write_cog")
        /\ UNCHANGED <<ctl, df, data_flat, thumbnail>>
     \/ Raised /\ UNCHANGED local

\* fmc_io.upload_object_to_s3: put_object of an open local file
Upload(step, next, file, uri) ==
  /\ InProcessDataset(step)
  /\ UNCHANGED <<args, local, calls>>
  /\ \/ /\ file \in local
        /\ s3' = s3 \cup {uri}
        /\ pd' = next
        /\ Did("put_object")
        /\ UNCHANGED <<ctl, rasters>>
     \/ Raised /\ UNCHANGED s3

\* get_and_set_aws_credentials, upload of the raster
UploadTif ==
  Upload("upload_tif", "metadata", LocalTif(Dataset), S3FileUri(Dataset))

\* add_fmc_metadata_files up to the STAC document: DatasetAssembler,
\* to_dataset_doc, to_stac_item
AssembleMetadata ==
  /\ InProcessDataset("metadata")
  /\ UNCHANGED <<args, s3, local, calls>>
  /\ \/ pd' = "write_stac" /\ UNCHANGED <<did, ctl, rasters>>
     \/ Raised

\* json.dump of the STAC document to the local file
WriteStac ==
  /\ InProcessDataset("write_stac")
  /\ local' = local \cup {LocalStacMetadataPath(Dataset)}
  /\ pd' = "upload_stac"
  /\ UNCHANGED <<args, s3, calls, did, ctl, rasters>>

UploadStac ==
  Upload("upload_stac", "write_odc", LocalStacMetadataPath(Dataset),
         S3StacMetadataPath(Dataset))

\* serialise.to_stream of the ODC document to the local file
WriteOdc ==
  /\ InProcessDataset("write_odc")
  /\ local' = local \cup {LocalOdcMetadataPath(Dataset)}
  /\ pd' = "upload_odc"
  /\ UNCHANGED <<args, s3, calls, did, ctl, rasters>>

UploadOdc ==
  Upload("upload_odc", "upload_thumbnail", LocalOdcMetadataPath(Dataset),
         S3OdcMetadataPath(Dataset))

UploadThumbnail ==
  Upload("upload_thumbnail", "remove", LocalThumbnailPath,
         S3ThumbnailPath(Dataset))

\* the four os.remove calls and the final sys.exit(0)
RemoveAndExit ==
  /\ InProcessDataset("remove")
  /\ local' = local \ {LocalThumbnailPath, LocalOdcMetadataPath(Dataset),
                       LocalStacMetadataPath(Dataset), LocalTif(Dataset)}
  /\ UNCHANGED <<args, s3, calls>>
  /\ SysExit("completed")

process_dataset ==
  \/ LoadProcessCfg
  \/ GetDataset
  \/ DownloadModel
  \/ LoadModel
  \/ CheckExists
  \/ LoadRaster
  \/ Classify
  \/ GenerateThumbnail
  \/ WriteCog
  \/ UploadTif
  \/ AssembleMetadata
  \/ WriteStac
  \/ UploadStac
  \/ WriteOdc
  \/ UploadOdc
  \/ UploadThumbnail
  \/ RemoveAndExit

(***************************************************************************)
(* The queue                                                               *)
(***************************************************************************)
\* messages a receive_message call can return: in the queue and visible
Visible == {m \in queue : deliveries[m] < MaxDeliveries}

Injective(f) == \A i, j \in DOMAIN f : f[i] = f[j] => i = j

\* the possible values of response.get("Messages", []): any visible
\* messages in any order, at most MaxNumberOfMessages of them
Batches ==
  UNION {{f \in [1..Cardinality(T) -> T] : Injective(f)} :
           T \in {U \in SUBSET Visible : Cardinality(U) <= MaxNumberOfMessages}}

Delivered(batch) ==
  [m \in Msgs |-> IF \E i \in DOMAIN batch : batch[i] = m
                  THEN deliveries[m] + 1 ELSE deliveries[m]]

(***************************************************************************)
(* fmc_processing_with_sqs: one pass of the while loop up to the for loop  *)
(***************************************************************************)
ReceiveMessage ==
  /\ cmd = "fmc_processing_with_sqs"
  /\ pc = "receive"
  /\ UNCHANGED <<args, s3, local, calls, polls, did, queue, error_echo,
                 yielded, rasters>>
  /\ \E batch \in Batches :
       IF batch = <<>>
       THEN /\ no_message_count' = no_message_count + 1
            /\ IF no_message_count' >= MaxEmptyPolls
               THEN pc' = "returned" /\ exit_status' = 0
               ELSE UNCHANGED <<pc, exit_status>>
            /\ UNCHANGED <<deliveries, messages, idx, pd, result>>
       ELSE /\ no_message_count' = 0
            /\ messages' = batch
            /\ result' = [result EXCEPT ![batch[1]] = "running"]
            /\ deliveries' = Delivered(batch)
            /\ idx' = 1
            /\ pd' = "cfg"
            /\ pc' = "for"
            /\ UNCHANGED exit_status

(***************************************************************************)
(* The queue task source of the tests                                      *)
(***************************************************************************)
NoIdentifier == ""

\* the value of key k of object o when it is a string holding a UUID
UuidAt(o, k) ==
  IF k \in DOMAIN o /\ o[k][1] = "str" /\ o[k][2][1] = "raw"
       /\ o[k][2][2] \in UUIDs
  THEN o[k][2][2] ELSE NoIdentifier

\* _extract_uuid_from_body without the envelope: json.loads and the keys of
\* the document only
ExtractWithoutEnvelope(t) ==
  IF t[1] = "raw"
  THEN IF t[2] \in UUIDs THEN t[2] ELSE NoIdentifier
  ELSE IF t[2][1] # "obj"
  THEN NoIdentifier
  ELSE LET o == t[2][2] IN
    IF UuidAt(o, "id") # NoIdentifier THEN UuidAt(o, "id")
    ELSE IF UuidAt(o, "dataset_uuid") # NoIdentifier
    THEN UuidAt(o, "dataset_uuid")
    ELSE IF "feature" \in DOMAIN o /\ o["feature"][1] = "obj"
    THEN UuidAt(o["feature"][2], "id")
    ELSE NoIdentifier

RECURSIVE _extract_uuid_from_body(_)
_extract_uuid_from_body(t) ==
  IF t[1] = "raw"
  THEN IF t[2] \in UUIDs THEN t[2] ELSE NoIdentifier
  ELSE IF t[2][1] # "obj"
  THEN NoIdentifier
  ELSE LET o == t[2][2] IN
    IF "Message" \in DOMAIN o /\ o["Message"][1] = "str"
    THEN _extract_uuid_from_body(o["Message"][2])
    ELSE IF UuidAt(o, "id") # NoIdentifier THEN UuidAt(o, "id")
    ELSE IF UuidAt(o, "dataset_uuid") # NoIdentifier
    THEN UuidAt(o, "dataset_uuid")
    ELSE IF "feature" \in DOMAIN o /\ o["feature"][1] = "obj"
    THEN UuidAt(o["feature"][2], "id")
    ELSE NoIdentifier

\* IterStops with the comparison one off
IterStops_Late(count) == count > max_empty_polls

\* the iterator stops at max_empty_polls empty polls in a row
IterStops(count) == count >= max_empty_polls

\* message["ReceiptHandle"]: the handle names the message received
ReceiptHandle(m) == m

\* one poll of the iterator
IterReceive ==
  /\ cmd = "get_uuid_iterator_from_sqs"
  /\ pc = "receive"
  /\ polls' = IF polls < MaxCounted THEN polls + 1 ELSE polls
  /\ UNCHANGED <<args, s3, local, calls, did, queue, result, error_echo,
                 yielded, pd, exit_status, rasters>>
  /\ \E batch \in Batches :
       IF batch = <<>>
       THEN /\ no_message_count' = no_message_count + 1
            /\ pc' = IF IterStops(no_message_count')
                     THEN "StopIteration" ELSE pc
            /\ UNCHANGED <<deliveries, messages, idx>>
       ELSE /\ no_message_count' = 0
            /\ messages' = batch
            /\ deliveries' = Delivered(batch)
            /\ idx' = 1
            /\ pc' = "for"

\* IterMessage with a malformed body ending the sequence
IterMessage_StopOnMalformed ==
  /\ cmd = "get_uuid_iterator_from_sqs"
  /\ pc = "for"
  /\ LET uuid == _extract_uuid_from_body(DatasetUuid) IN
       IF uuid = NoIdentifier
       THEN /\ result' = [result EXCEPT ![Cur] = "skipped"]
            /\ pc' = "StopIteration"
            /\ UNCHANGED <<yielded, idx, messages>>
       ELSE /\ result' = [result EXCEPT ![Cur] = "yielded"]
            /\ yielded' = yielded \cup {<<uuid, ReceiptHandle(Cur)>>}
            /\ IF idx < Len(messages)
               THEN idx' = idx + 1 /\ UNCHANGED <<messages, pc>>
               ELSE idx' = 0 /\ messages' = <<>> /\ pc' = "receive"
  /\ UNCHANGED <<args, s3, local, did, queue, deliveries, no_message_count,
                 error_echo, calls, polls, pd, exit_status, rasters>>

\* one message of the batch: yield its identifier and receipt handle, or
\* skip it
IterMessage ==
  /\ cmd = "get_uuid_iterator_from_sqs"
  /\ pc = "for"
  /\ LET uuid == _extract_uuid_from_body(DatasetUuid) IN
       IF uuid = NoIdentifier
       THEN /\ result' = [result EXCEPT ![Cur] = "skipped"]
            /\ UNCHANGED yielded
       ELSE /\ result' = [result EXCEPT ![Cur] = "yielded"]
            /\ yielded' = yielded \cup {<<uuid, ReceiptHandle(Cur)>>}
  /\ IF idx < Len(messages)
     THEN idx' = idx + 1 /\ UNCHANGED <<messages, pc>>
     ELSE idx' = 0 /\ messages' = <<>> /\ pc' = "receive"
  /\ UNCHANGED <<args, s3, local, did, queue, deliveries, no_message_count,
                 error_echo, calls, polls, pd, exit_status, rasters>>

get_uuid_iterator_from_sqs ==
  \/ IterReceive
  \/ IterMessage

\* the commands of __main__.py, on the scene of one pixel
InitCommands ==
  /\ cmd \in {"fmc_processing", "fmc_processing_with_sqs"}
  /\ scene = PixelScene
  /\ Init

\* fmc_processing_with_sqs polls and calls process_dataset for each message;
\* fmc_processing calls process_dataset once, which Init has entered
Next ==
  \/ ReceiveMessage
  \/ process_dataset

Spec == InitCommands /\ [][Next]_vars

\* fmc_processing of one Sentinel-2 acquisition with --overwrite, on every
\* scene
InitRaster ==
  /\ cmd = "fmc_processing"
  /\ overwrite = TRUE
  /\ s3 = {}
  /\ Init
  /\ Bodies[body[1]].text = Raw(UUID)

NextRaster == process_dataset

SpecRaster == InitRaster /\ [][NextRaster]_vars

\* the queue task source on its own
InitIter == cmd = "get_uuid_iterator_from_sqs" /\ Init

NextIter == get_uuid_iterator_from_sqs

SpecIter == InitIter /\ [][NextIter]_vars

(***************************************************************************)
(* Properties of the queue-driven command                                  *)
(***************************************************************************)
Sqs == cmd = "fmc_processing_with_sqs"

\* process_dataset ran to its end for the message
Succeeded(how) == how = "completed"

\* process_dataset ended for the message on a preflight rejection
Rejected(how) == how \in {"unknown_platform", "already_exists"}

\* the step in which the call of process_dataset for message m ends as how
Ends(m, how) == result[m] = "running" /\ result'[m] = how

\* C1: in the queue-driven command a message leaves the queue only in the
\* step in which process_dataset completes for it, and the step in which its
\* processing raises an error leaves it in the queue.
C1_AckOnlyAfterSuccess ==
  [][Sqs => \A m \in Msgs :
       /\ (m \in queue /\ m \notin queue') => Ends(m, "completed")
       /\ Ends(m, "error") => m \in queue']_vars

\* a message whose processing raised an error is still in the queue while
\* the run goes on
C1_Witness ==
  /\ Sqs
  /\ pc = "receive"
  /\ \E m \in Msgs : result[m] = "error" /\ error_echo[m] > 0 /\ m \in queue

\* C2: in the queue-driven command a message whose identifier was processed
\* to the end (all artifacts uploaded) has been deleted from the queue.
C2_SuccessIsAcknowledged ==
  Sqs => \A m \in Msgs : Succeeded(result[m]) => m \notin queue

\* C3: in the queue-driven command the step in which processing a message
\* raises an error echoes the error, leaves the process running and goes on
\* to the next message of the batch, or to the next poll after the last one.
C3_FailureDoesNotAbort ==
  [][Sqs => \A m \in Msgs : Ends(m, "error") =>
       /\ error_echo'[m] = error_echo[m] + 1
       /\ exit_status' = -1
       /\ IF idx < Len(messages)
          THEN /\ pc' = "for"
               /\ messages' = messages
               /\ idx' = idx + 1
               /\ pd' = "cfg"
               /\ result'[messages[idx + 1]] = "running"
          ELSE pc' = "receive"]_vars

\* after the failure of one message the next message of the same batch has
\* got as far as the load of its raster
C3_Witness ==
  /\ Sqs
  /\ pc = "for"
  /\ idx = 2
  /\ result[messages[1]] = "error"
  /\ error_echo[messages[1]] > 0
  /\ pd = "classify"

\* C4: in the queue-driven command the step in which a message is rejected
\* by the preflight (unsupported product, or output exists with overwrite
\* disabled) leaves the process running, at the next message or the next
\* poll.
C4_RejectionDoesNotAbort ==
  [][Sqs => \A m \in Msgs :
       (result[m] = "running" /\ Rejected(result'[m])) =>
         /\ exit_status' = -1
         /\ pc' \in {"for", "receive"}]_vars

\* the work of one call of process_dataset that C5 rules out for a skipped
\* identifier
SkippedWork == {"download_model", "joblib_load", "dc_load", "predict",
                "generate_thumbnail", "write_cog", "put_object"}

\* C5: an identifier that is skipped because its raster exists and overwrite
\* is disabled has caused no model download or load, no raster load, no
\* predict call, no write to storage and no creation of a local file.
C5_SkipDoesNoWork ==
  \A m \in Msgs : result[m] = "already_exists" =>
    did \cap SkippedWork = {}

\* C6: the loop of the queue-driven command has ended only when
\* MaxEmptyPolls polls in a row were empty.
C6_StopsOnlyAfterEmptyPolls ==
  Sqs /\ pc \notin {"receive", "for"} => no_message_count = MaxEmptyPolls

\* C10: a command that has ended has ended with status 0, also when the
\* processing of an identifier failed.
C10_ExitStatusZero ==
  exit_status \in {-1, 0}

(***************************************************************************)
(* Properties of the pipeline driver                                       *)
(***************************************************************************)
\* the body of message m and, when the catalog knows it, its record
TextOf(m) == Bodies[body[m]].text
DatasetOf(m) == Catalog[TextOf(m)[2]]

\* process_dataset is running for message m
Running(m) == result[m] = "running"

\* the local files of the four artifacts of one identifier
LocalArtifacts(ds) ==
  {LocalTif(ds), LocalThumbnailPath, LocalStacMetadataPath(ds),
   LocalOdcMetadataPath(ds)}

\* C11: the step in which the processing of an identifier ends, by success,
\* by rejection or by the failure of any step, leaves none of the local
\* files of its four artifacts behind.
C11_LocalCleanedOnEveryExit ==
  [][\A m \in Msgs :
       (Running(m) /\ result'[m] # "running" /\ Known(TextOf(m)))
         => local' \cap LocalArtifacts(DatasetOf(m)) = {}]_vars

\* the positions of process_dataset before a step that can fail ahead of
\* the uploads: render, raster write, metadata and STAC generation
PreUploadSteps == {"thumbnail", "write_cog", "metadata", "write_stac"}

\* C12: while an identifier is processed, as soon as the run has written
\* one of its artifacts to the Output Location, render, raster write,
\* metadata and STAC document generation are all behind it.
C12_UploadsAreLast ==
  \A m \in Msgs :
    (Running(m) /\ "put_object" \in did) => pd \notin PreUploadSteps

\* the positions of process_dataset after the names of lines 346-354 are
\* derived
NamesDerived ==
  {"exists", "load", "classify", "thumbnail", "write_cog", "upload_tif",
   "metadata", "write_stac", "upload_stac", "write_odc", "upload_odc",
   "upload_thumbnail", "remove"}

\* two acquisitions agree in output product name, region code and
\* acquisition date (the product version and the output root are those of
\* the one configuration)
SameKey(a, b) ==
  /\ ProductName(a.product) = ProductName(b.product)
  /\ RegionCode(a) = RegionCode(b)
  /\ SubSeq(a.time, 1, 3) = SubSeq(b.time, 1, 3)

\* C13: the Output Location and the raster URI derived for the identifier
\* in process are those of every acquisition of the catalog with the same
\* product name, region code and acquisition date, whatever its identifier,
\* time of day, quality or maturity; so with overwrite disabled the raster
\* such an acquisition has left in storage stops the run at the existence
\* check.
C13_LocationDependsOnKeyOnly ==
  \A m \in Msgs :
    (Running(m) /\ Known(TextOf(m)) /\ pd \in NamesDerived) =>
      \A u \in DOMAIN Catalog : SameKey(DatasetOf(m), Catalog[u]) =>
        /\ S3Folder(DatasetOf(m)) = S3Folder(Catalog[u])
        /\ S3FileUri(DatasetOf(m)) = S3FileUri(Catalog[u])
        /\ (~overwrite /\ S3FileUri(Catalog[u]) \in s3
              /\ "put_object" \notin did) => pd = "exists"

\* the run for the near-real-time acquisition found the raster that the
\* acquisition of the same product, region and day had left, and skipped
C13_Witness ==
  \E m \in Msgs :
    /\ TextOf(m) = Raw(UUID_NRT)
    /\ result[m] = "already_exists"
    /\ S3FileUri(Catalog[UUID]) \in s3

\* the four artifact names of the interface: title and suffix
InterfaceSuffixes ==
  {"_final_fmc.tif", "_thumbnail.jpg", ".stac-item.json", ".odc-metadata.yaml"}
InterfaceObjects(ds) ==
  {S3Folder(ds) \o "/" \o Title(ds) \o sfx : sfx \in InterfaceSuffixes}

\* C15: when an identifier has been processed to the end, the objects under
\* its Output Location are exactly four, named by its title and the
\* suffixes _final_fmc.tif, _thumbnail.jpg, .stac-item.json and
\* .odc-metadata.yaml.
C15_FourArtifactsPublished ==
  \A m \in Msgs : result[m] = "completed" =>
    /\ InterfaceObjects(DatasetOf(m)) \subseteq s3
    /\ Cardinality(s3 \cap (InterfaceObjects(DatasetOf(m))
                              \cup PublishedObjects(DatasetOf(m)))) = 4

\* the preflight rules on geometric quality and maturity
IsFinal(maturity) == maturity \in {"final", "Final", "FINAL"}
PassesQuality(ds) == ds.gqa <= 1 /\ IsFinal(ds.maturity)

\* C16: for an identifier whose record fails the quality rule (absolute
\* mean positional error above 1) or the maturity rule (not "final"), no
\* raster is loaded, nothing is classified and nothing is uploaded.
C16_QualityPreflight ==
  \A m \in Msgs :
    (Known(TextOf(m)) /\ ~PassesQuality(DatasetOf(m))) =>
      /\ Running(m) => did \cap {"dc_load", "predict", "put_object"} = {}
      /\ result[m] # "completed"

\* C17: an identifier the catalog does not know is a skip: its processing
\* does not end in an error, and it ends before the model is downloaded or
\* storage is reached.
C17_UnknownIsSkipped ==
  \A m \in Msgs :
    (IsUuidText(TextOf(m)) /\ ~Known(TextOf(m))) =>
      /\ result[m] # "error"
      /\ Running(m) => pd \in {"cfg", "get"}

\* C23: over the whole run, however many identifiers it processes, the
\* Process Configuration is fetched at most once and the model object is
\* downloaded and loaded at most once.
C23_LoadedOncePerRun ==
  \A c \in Loads : calls[c] <= 1

\* C24: an identifier that was skipped at the existence check, overwrite
\* disabled, has all four of its artifacts at the Output Location; so an
\* identifier of which an earlier call left only some artifacts there is
\* processed again and not skipped.
C24_SkipMeansComplete ==
  \A m \in Msgs : result[m] = "already_exists" =>
    PublishedObjects(DatasetOf(m)) \subseteq s3

\* C25: in the queue-driven command the messages of a batch are handed to
\* process_dataset one at a time in the order received, and when the run
\* polls again or has ended every message it received has been handed to
\* process_dataset, however the calls for the messages before it ended.
C25_EveryReceivedIsHandled ==
  Sqs =>
    /\ pc # "for" =>
         \A m \in Msgs : deliveries[m] > 0 => result[m] \notin {"none", "running"}
    /\ pc = "for" =>
         \A i \in 1..Len(messages) :
           /\ i < idx => result[messages[i]] \notin {"none", "running"}
           /\ i = idx => result[messages[i]] = "running"
           /\ (i > idx /\ deliveries[messages[i]] = 1)
                => result[messages[i]] = "none"

(***************************************************************************)
(* Properties of the rasters                                               *)
(***************************************************************************)
\* the pixels of the raster of the run
ScenePixels == Grid(scene.side)

\* the scenario of C14: the stub model that answers 5, vegetation all over,
\* one single pixel flagged cloud and one other pixel flagged water
OneCloudOneWater(sc) ==
  /\ sc.side = Side
  /\ sc.model = "constant_5"
  /\ \A p \in Pixels : sc.spectrum[p] = "vegetation" /\ sc.contiguity[p] = 1
  /\ Cardinality({p \in Pixels : sc.fmask[p] = FmaskCloud}) = 1
  /\ Cardinality({p \in Pixels : sc.fmask[p] = FmaskWater}) = 1
  /\ \A p \in Pixels : sc.fmask[p] \in {1, FmaskCloud, FmaskWater}

\* write_cog has just written the raster
Written == cog # None /\ pd = "upload_tif"

\* generate_thumbnail has just rendered the thumbnail
Rendered == thumbnail # None /\ pd = "write_cog"

\* C14 as stated: in that scenario the raster written has type int16, -999
\* at the cloud pixel and at the water pixel, and 5 at every clear pixel.
C14_FlaggedPixelsAreNodata ==
  (Written /\ OneCloudOneWater(scene)) =>
    /\ cog.dtype = "int16"
    /\ \A p \in Pixels :
         cog.px[p] = IF scene.fmask[p] \in {FmaskCloud, FmaskWater}
                     THEN Nodata ELSE 5

\* C14 amended: in that scenario the raster written has type int16, -999 at
\* the water pixel and 5 at every other pixel, the single cloud pixel
\* included: the opening takes an isolated pixel out of the cloud mask.
C14_IsolatedCloudIsOpened ==
  (Written /\ OneCloudOneWater(scene)) =>
    /\ cog.dtype = "int16"
    /\ cog.nodata = Nodata
    /\ \A p \in Pixels :
         cog.px[p] = IF scene.fmask[p] = FmaskWater THEN Nodata ELSE 5

\* the raster of such a scenario is written, 5 at its cloud pixel
C14_Witness ==
  /\ cog # None
  /\ OneCloudOneWater(scene)
  /\ \E p \in Pixels : scene.fmask[p] = FmaskCloud /\ cog.px[p] = 5
  /\ \E p \in Pixels : scene.fmask[p] = FmaskWater /\ cog.px[p] = Nodata

\* C18: the data the thumbnail is rendered from holds -999 nowhere and
\* not-a-number at every masked pixel, and the thumbnail is rendered while
\* the nodata pass and the write of the raster have not happened: a raster
\* is written only after the thumbnail.
C18_ThumbnailBeforeNodata ==
  /\ [](/\ Rendered =>
             /\ \A p \in ScenePixels : thumbnail[p] # Num(Nodata)
             /\ \A p \in ScenePixels :
                  (BetterCloudMask(scene)[p] \/ WaterMask(scene)[p])
                    => thumbnail[p] = NaN
        /\ cog # None => thumbnail # None)
  /\ [][(thumbnail = None /\ thumbnail' # None) =>
          (cog = None /\ cog' = None /\ thumbnail' = masked_data)]_vars

\* thumbnail and raster of a scene with a masked pixel: a gap in the one,
\* -999 in the other
C18_Witness ==
  /\ thumbnail # None
  /\ cog # None
  /\ \E p \in ScenePixels : thumbnail[p] = NaN /\ cog.px[p] = Nodata
  /\ \E p \in ScenePixels : thumbnail[p] = Num(-1) /\ cog.px[p] = Nodata

\* classify_fmc has just called model.predict
Classified == data_flat # None /\ pd = "thumbnail"

\* C19: the matrix given to model.predict has one row for each pixel that
\* sklearn_flatten keeps; it holds no infinity, -999 where the feature of
\* the pixel is an infinity, and the feature itself where it is finite.
C19_NoInfinityToPredict ==
  Classified =>
    LET data == WithIndices(df) IN
    LET kept == KeptPixels(data) IN
      /\ Len(data_flat) = Len(kept)
      /\ \A i \in DOMAIN data_flat : \A j \in 1..Len(bands_order) :
           LET feature == data.px[kept[i]][bands_order[j]] IN
             /\ ~IsInf(data_flat[i][j])
             /\ IsInf(feature) => data_flat[i][j] = Num(Nodata)
             /\ ~IsInf(feature) => data_flat[i][j] = feature

\* the features held +infinity and -infinity, and -999 stands for both
C19_Witness ==
  /\ data_flat # None
  /\ LET data == WithIndices(df) IN
     LET kept == KeptPixels(data) IN
       /\ \E i \in DOMAIN data_flat :
            data.px[kept[i]]["ndvi"] = PosInf /\ data_flat[i][1] = Num(Nodata)
       /\ \E i \in DOMAIN data_flat :
            data.px[kept[i]]["ndii"] = NegInf /\ data_flat[i][2] = Num(Nodata)


\* C20: whatever the order of the bands of the raster loaded, the matrix
\* given to model.predict and the classification are those of the same
\* raster with its bands in the order blue .. swir_3.
C20_BandOrderFixed ==
  Classified =>
    LET reordered == [df EXCEPT !.vars = InputBands] IN
      /\ data_flat = DataFlat(reordered)
      /\ masked_data = Where(classify_fmc(reordered, scene.model), scene)

\* a raster with its bands in another order was classified by the model
\* that reads the first column
C20_Witness ==
  /\ Classified
  /\ df.vars # InputBands
  /\ scene.model = "column_1"
  /\ \E p \in ScenePixels : masked_data[p] = Num(-1)

\* the cloud test of C21: fmask cloud or shadow, opened with radius 1, then
\* dilated with radius 3
CleanedCloudTest(sc) ==
  LET raw == [p \in Grid(sc.side) |-> sc.fmask[p] = FmaskCloud
                                        \/ sc.fmask[p] = FmaskShadow] IN
  LET opened == Dilation(Erosion(raw, 1, sc.border), 1) IN
  Dilation(opened, 3)

\* the water/invalid test of C21: fmask water or no-data, or contiguity 0
InvalidTest(sc, p) ==
  sc.fmask[p] = FmaskWater \/ sc.fmask[p] = FmaskNodata \/ sc.contiguity[p] = 0

\* C21: in the raster written, every pixel of the cleaned cloud test or of
\* the water/invalid test holds -999, whatever the model predicted for it,
\* and a pixel of neither test that the model gave a class >= 0 holds that
\* class: the pixels excluded are exactly those of the union of the tests.
C21_ExclusionIsUnion ==
  Written =>
    LET cleaned == CleanedCloudTest(scene)
        fmc == classify_fmc(df, scene.model) IN
    \A p \in ScenePixels :
      IF cleaned[p] \/ InvalidTest(scene, p)
      THEN cog.px[p] = Nodata
      ELSE GreaterEqual0(fmc[p]) => cog.px[p] = fmc[p][2]

\* the raster of a scene with a cloud is written: -999 at a pixel the
\* dilation added to the cloud and at a pixel of contiguity 0, both of class
\* 5 for the model
C21_Witness ==
  /\ Written
  /\ scene.model = "constant_5"
  /\ LET cleaned == CleanedCloudTest(scene) IN
     /\ \E p \in ScenePixels :
          /\ cleaned[p]
          /\ scene.fmask[p] = 1
          /\ cog.px[p] = Nodata
     /\ \E p \in ScenePixels :
          /\ ~cleaned[p]
          /\ scene.fmask[p] = 1
          /\ scene.contiguity[p] = 0
          /\ cog.px[p] = Nodata

\* pixel p is in the Exclusion Mask
Excluded(sc, p) == CleanedCloudTest(sc)[p] \/ InvalidTest(sc, p)

\* the class below 0, false for not-a-number
Negative(v) == v # NaN /\ ~IsInf(v) /\ v[2] * v[3] < 0

\* the written raster is of type int16 with -999 declared as nodata, and
\* every pixel outside the Exclusion Mask of a class >= 0 holds its class
KeepsValues(fmc) ==
  /\ cog.dtype = "int16"
  /\ cog.nodata = Nodata
  /\ \A p \in ScenePixels :
       (~Excluded(scene, p) /\ GreaterEqual0(fmc[p])) => cog.px[p] = fmc[p][2]

\* C22 as stated: a pixel of the raster written is -999 if and only if it
\* is in the Exclusion Mask or its class is below 0; every other pixel of a
\* class >= 0 keeps it; the raster is int16 with nodata -999.
C22_NodataIffMaskedOrNegative ==
  Written =>
    LET fmc == classify_fmc(df, scene.model) IN
    /\ KeepsValues(fmc)
    /\ \A p \in ScenePixels :
         cog.px[p] = Nodata <=> (Excluded(scene, p) \/ Negative(fmc[p]))

\* C22 amended: a pixel of the raster written is -999 if and only if it is
\* in the Exclusion Mask, its class is below 0, or it has no class (a
\* feature of the pixel is not-a-number, so predict never saw it); every
\* other pixel, of a class >= 0, keeps it, 0 included; the raster is int16
\* with nodata -999.
C22_NodataIffNotGreaterEqual0 ==
  Written =>
    LET fmc == classify_fmc(df, scene.model) IN
    /\ KeepsValues(fmc)
    /\ \A p \in ScenePixels :
         cog.px[p] = Nodata <=>
           (Excluded(scene, p) \/ Negative(fmc[p]) \/ fmc[p] = NaN)

\* the raster written holds 0 at a pixel of class 0, and -999 at a pixel of
\* class -1, at a pixel without class and at the water pixel, whose class
\* is not below 0
C22_Witness ==
  /\ Written
  /\ LET fmc == classify_fmc(df, scene.model) IN
     /\ \E p \in ScenePixels :
          ~Excluded(scene, p) /\ fmc[p] = Num(0) /\ cog.px[p] = 0
     /\ \E p \in ScenePixels :
          ~Excluded(scene, p) /\ fmc[p] = Num(-1) /\ cog.px[p] = Nodata
     /\ \E p \in ScenePixels :
          ~Excluded(scene, p) /\ fmc[p] = NaN /\ cog.px[p] = Nodata
     /\ \E p \in ScenePixels :
          Excluded(scene, p) /\ GreaterEqual0(fmc[p]) /\ cog.px[p] = Nodata

(***************************************************************************)
(* Properties of the queue task source                                     *)
(***************************************************************************)
Iter == cmd = "get_uuid_iterator_from_sqs"

====
